---------------------------- MODULE Spec2Model ----------------------------
(***************************************************************************)
(* Model of scripts/convert_to_ome_tiff.py: one run of the command line    *)
(* tool that turns a directory of single-channel TIF files into one        *)
(* pyramidal OME-TIFF.                                                     *)
(*                                                                         *)
(* Text (file names, channel names, attribute values) is a sequence of     *)
(* one-character strings, compared by code point as Python compares str.   *)
(* An optional value (None / a value) is a sequence of length 0 or 1.      *)
(***************************************************************************)
EXTENDS Integers, Sequences, FiniteSets, TLC

VARIABLES
    pc,             \* position of the run in main() / convert()
    input_is_dir,   \* args.input_dir.is_dir()
    dir_entries,    \* file names present in the input directory
    filename,       \* output_path.name
    pixel_size,     \* --pixel-size, as the text f"{pixel_size}" gives
    uuid_calls,     \* number of uuid4() calls made so far
    parent_made,    \* output_path.parent.mkdir(...) has run
    channel_paths,  \* convert: channel_paths (file names, same directory)
    names,          \* convert: names
    size_yx,        \* convert: <<size_y, size_x>>, <<>> before the probe
    ome_xml,        \* convert: ome_xml, <<>> before it is built
    tw,             \* the TiffWriter: "unopened", "open", "closed"
    pages,          \* the planes written to the container, in write order
    i,              \* convert: loop index of the channel loop
    level,          \* convert: number of pyramid levels written for channel i
    first,          \* convert: first (the probe plane), <<>> when released
    img,            \* convert: img, <<>> when not bound
    sub,            \* convert: sub, <<>> when not bound
    err,            \* how the run ended abnormally, "none" otherwise
    \* downsample_2x applied to sample arrays
    r_pc,           \* "idle", "ready" or "raised"
    r_orig,         \* the array the reductions started from
    r_prev,         \* <<the argument of the last call>>, <<>> before it
    r_img,          \* the current array
    r_level,        \* number of reductions applied
    \* process_hdl73_channels.main
    b_pc,           \* position of the batch run
    force,          \* args.force
    registered,     \* stems of the TIF files in REGISTERED_DIR
    existing,       \* main: existing (stems of the TIF files in OUTPUT_DIR)
    to_process,     \* main: to_process
    skipped,        \* main: skipped
    results,        \* main: results
    b_idx,          \* number of channels of to_process taken by the loop
    outputs         \* stems of the files written into OUTPUT_DIR

vars == <<pc, input_is_dir, dir_entries, filename, pixel_size, uuid_calls,
          parent_made,
          channel_paths, names, size_yx, ome_xml, tw, pages, i, level, first,
          img, sub, err, r_pc, r_orig, r_prev, r_img, r_level, b_pc, force,
          registered, existing, to_process, skipped, results, b_idx, outputs>>

convert_vars == <<pc, input_is_dir, dir_entries, filename, pixel_size,
                  uuid_calls, parent_made, channel_paths, names, size_yx,
                  ome_xml, tw, pages, i, level, first, img, sub, err>>

reducer_vars == <<r_pc, r_orig, r_prev, r_img, r_level>>

batch_vars == <<b_pc, force, registered, existing, to_process, skipped,
                results, b_idx, outputs>>

\* The parts of the model a specification does not exercise stay idle.
ConvertIdle ==
    /\ pc = "idle" /\ input_is_dir = FALSE /\ dir_entries = {}
    /\ filename = <<>> /\ pixel_size = "" /\ uuid_calls = 0
    /\ parent_made = FALSE /\ channel_paths = <<>> /\ names = <<>>
    /\ size_yx = <<>> /\ ome_xml = <<>> /\ tw = "unopened" /\ pages = <<>>
    /\ i = 0 /\ level = 0 /\ first = <<>> /\ img = <<>> /\ sub = <<>>
    /\ err = "none"

ReducerIdle ==
    /\ r_pc = "idle" /\ r_orig = <<>> /\ r_prev = <<>> /\ r_img = <<>>
    /\ r_level = 0

BatchIdle ==
    /\ b_pc = "idle" /\ force = FALSE /\ registered = {} /\ existing = {}
    /\ to_process = <<>> /\ skipped = <<>> /\ results = <<>> /\ b_idx = 0
    /\ outputs = {}

(***************************************************************************)
(* Program constants.                                                      *)
(***************************************************************************)
NUM_SUBIFDS == 5

TILE == 512

(***************************************************************************)
(* Bounds of the model.                                                    *)
(***************************************************************************)
\* A directory holds at most MaxFiles of the candidate file names.
MaxFiles == 3

\* The two side lengths source images are drawn from: one too small for
\* NUM_SUBIFDS halvings, one large enough (and with an odd intermediate).
SmallDim == 5

LargeDim == 200

(***************************************************************************)
(* Text.                                                                   *)
(***************************************************************************)
Chars == {"&", "-", ".", "0", "1", "3", "A", "B", "C", "D", "I", "K", "L",
          "N", "P", "a", "f", "i", "o", "t", "x"}

\* Unicode code point of a character (what Python's str comparison uses).
Ord(c) ==
    CASE c = "&" -> 38 [] c = "-" -> 45 [] c = "." -> 46
      [] c = "0" -> 48 [] c = "1" -> 49 [] c = "3" -> 51
      [] c = "A" -> 65 [] c = "B" -> 66 [] c = "C" -> 67 [] c = "D" -> 68
      [] c = "I" -> 73 [] c = "K" -> 75 [] c = "L" -> 76 [] c = "N" -> 78
      [] c = "P" -> 80
      [] c = "a" -> 97 [] c = "f" -> 102 [] c = "i" -> 105
      [] c = "o" -> 111 [] c = "t" -> 116 [] c = "x" -> 120

\* Python: a < b for two str values.
RECURSIVE StrLess(_, _)
StrLess(a, b) ==
    IF b = <<>> THEN FALSE
    ELSE IF a = <<>> THEN TRUE
    ELSE IF Head(a) # Head(b) THEN Ord(Head(a)) < Ord(Head(b))
    ELSE StrLess(Tail(a), Tail(b))

StrLeq(a, b) == a = b \/ StrLess(a, b)

\* Python: s.startswith(prefix).
StartsWith(s, prefix) ==
    /\ Len(s) >= Len(prefix)
    /\ SubSeq(s, 1, Len(prefix)) = prefix

\* Python: s.endswith(suffix).
EndsWith(s, suffix) ==
    /\ Len(s) >= Len(suffix)
    /\ SubSeq(s, Len(s) - Len(suffix) + 1, Len(s)) = suffix

(***************************************************************************)
(* Paths.  All paths of one run lie in the input directory, so a path is   *)
(* its final component and Path comparison is comparison of that name.     *)
(***************************************************************************)
\* Index of the last "." of a name, 0 when there is none (str.rfind + 1).
LastDot(name) ==
    LET dots == {k \in 1..Len(name) : name[k] = "."}
    IN  IF dots = {} THEN 0 ELSE CHOOSE k \in dots : \A j \in dots : j <= k

\* pathlib: PurePath.stem, the name without its last suffix; a leading or a
\* trailing dot starts no suffix.
stem(name) ==
    LET d == LastDot(name)
    IN  IF 1 < d /\ d < Len(name) THEN SubSeq(name, 1, d - 1) ELSE name

\* pathlib: PurePath.__lt__ for two paths of one directory.
PathLess(p, q) == StrLess(p, q)

\* Insert p into the sorted sequence s, after every element not greater.
RECURSIVE InsertSorted(_, _)
InsertSorted(p, s) ==
    IF s = <<>> THEN <<p>>
    ELSE IF PathLess(p, Head(s)) THEN <<p>> \o s
    ELSE <<Head(s)>> \o InsertSorted(p, Tail(s))

\* A listing used in the order the directory enumerates it.
unsorted(seq) == seq

\* Python: sorted(seq) on paths (stable, ascending).
RECURSIVE sorted(_)
sorted(seq) ==
    IF seq = <<>> THEN <<>>
    ELSE InsertSorted(seq[Len(seq)], sorted(SubSeq(seq, 1, Len(seq) - 1)))

TIF_SUFFIX == <<".", "t", "i", "f">>

BLANK == <<"B", "L", "A", "N", "K">>

DAPI == <<"D", "A", "P", "I">>

DAPI_01 == <<"D", "A", "P", "I", "-", "0", "1">>

\* input_dir.glob("*.tif") over one enumeration of the directory.
glob_tif(enumeration) ==
    LET Matches(p) == EndsWith(p, TIF_SUFFIX)
    IN  SelectSeq(enumeration, Matches)

\* discover_channels, lines 28-31: the sorted, BLANK-free list of TIF files.
eligible_tifs(enumeration) ==
    LET NotBlank(p) == stem(p) # BLANK /\ ~StartsWith(stem(p), BLANK)
    IN  sorted(SelectSeq(glob_tif(enumeration), NotBlank))

IsDapi(p) == stem(p) \in {DAPI, DAPI_01}

\* discover_channels, lines 36-38: DAPI files first, then the others, each
\* group in the order of the sorted list.  (The empty list makes the caller
\* exit, lines 32-33.)
discover_channels(enumeration) ==
    LET tifs == eligible_tifs(enumeration)
        NotDapi(p) == ~IsDapi(p)
    IN  SelectSeq(tifs, IsDapi) \o SelectSeq(tifs, NotDapi)

\* channel_name: the stem, with DAPI-01 normalised to DAPI.
channel_name(path) ==
    IF stem(path) = DAPI_01 THEN DAPI ELSE stem(path)

(***************************************************************************)
(* Planes.  A plane in memory is its shape and its provenance: the source  *)
(* file it was read from and the number of 2x reductions applied to it.    *)
(***************************************************************************)
\* tifffile.imread(path) of a readable 2-D image of the given shape
\* (.astype(np.uint16) keeps the shape).
imread(path, shape) == [shape |-> shape, src |-> path, level |-> 0]

\* A reducer that pads an odd side instead of trimming it.
reduced_shape_padding(shape) ==
    <<(shape[1] + (shape[1] % 2)) \div 2, (shape[2] + (shape[2] % 2)) \div 2>>

\* downsample_2x, lines 51-53: the shape of the result.  h2, w2 are the even
\* trimmed sides; the reshape to (h2 // 2, 2, w2 // 2, 2) and the mean over
\* axes 1 and 3 leave (h2 // 2, w2 // 2).
reduced_shape(shape) ==
    LET h  == shape[1]
        w  == shape[2]
        h2 == h - (h % 2)
        w2 == w - (w % 2)
    IN  <<h2 \div 2, w2 \div 2>>

\* downsample_2x applied to a plane.
downsample_2x(plane) ==
    [shape |-> reduced_shape(plane.shape),
     src   |-> plane.src,
     level |-> plane.level + 1]

(***************************************************************************)
(* The metadata document.  It is kept as its elements and attributes; an   *)
(* attribute filled from a Python value holds the text the f-string puts   *)
(* between the quotes, character for character.                            *)
(***************************************************************************)
\* uuid4(): a value no earlier call returned, named by the call's number.
uuid4(calls) == <<"urn:uuid:", calls + 1>>

\* build_ome_xml, lines 75-79: the Channel element appended when idx
\* elements are already in the list.
channel_element(idx, name) ==
    [id |-> <<0, idx>>, name |-> name, samples_per_pixel |-> 1]

\* A plane reference that counts the pyramid levels as planes of the chain.
tiffdata_element_flat(c, fname, image_uuid) ==
    [first_c |-> c, first_t |-> 0, first_z |-> 0,
     ifd |-> c * (NUM_SUBIFDS + 1),
     plane_count |-> 1, uuid_file_name |-> fname, uuid |-> image_uuid]

\* build_ome_xml, lines 84-89: the TiffData element of channel c.
tiffdata_element(c, fname, image_uuid) ==
    [first_c |-> c, first_t |-> 0, first_z |-> 0, ifd |-> c,
     plane_count |-> 1, uuid_file_name |-> fname, uuid |-> image_uuid]

\* build_ome_xml, lines 69-110.
build_ome_xml(nms, size_y, size_x, psize, fname, calls) ==
    LET n_channels == Len(nms)
        image_uuid == uuid4(calls)
    IN  [uuid            |-> image_uuid,
         image_name      |-> fname,
         physical_size_x |-> psize,
         physical_size_y |-> psize,
         size_c          |-> n_channels,
         size_t          |-> 1,
         size_x          |-> size_x,
         size_y          |-> size_y,
         size_z          |-> 1,
         type            |-> "uint16",
         channels        |-> [c \in 1..n_channels |->
                                 channel_element(c - 1, nms[c])],
         tiffdata        |-> [c \in 1..n_channels |->
                                 tiffdata_element(c - 1, fname, image_uuid)]]

(***************************************************************************)
(* The container.                                                          *)
(***************************************************************************)
\* Level options that leave out the reduced-resolution flag.
subifd_options_unflagged ==
    [tile |-> TILE, compression |-> "ADOBE_DEFLATE", subifds |-> 0,
     subfiletype |-> 0, description |-> <<>>]

\* convert, lines 138-143: the keyword arguments of a pyramid level's write.
subifd_options ==
    [tile |-> TILE, compression |-> "ADOBE_DEFLATE", subifds |-> 0,
     subfiletype |-> 1, description |-> <<>>]

\* Page options that attach the document to every channel's plane.
page_kwargs_always_described(idx, doc) ==
    [tile |-> TILE, compression |-> "ADOBE_DEFLATE", subifds |-> NUM_SUBIFDS,
     subfiletype |-> 0, description |-> <<doc>>]

\* convert, lines 154-164: the keyword arguments of the full-resolution
\* write of channel idx.
page_kwargs(idx, doc) ==
    [tile |-> TILE, compression |-> "ADOBE_DEFLATE", subifds |-> NUM_SUBIFDS,
     subfiletype |-> 0, description |-> IF idx = 0 THEN <<doc>> ELSE <<>>]

\* tw.write(data, **kwargs): the plane appended to the container.
tw_write(data, kwargs) == [plane |-> data, opts |-> kwargs]

(***************************************************************************)
(* Inputs.                                                                 *)
(***************************************************************************)
Tif(s) == s \o TIF_SUFFIX

\* The file names a directory is drawn from.
FileNames ==
    { Tif(DAPI), Tif(DAPI_01), Tif(BLANK \o <<"a">>),
      Tif(<<"C", "D", "3">>), Tif(<<"C", "D", "3", "-", "1">>),
      Tif(<<"A", "&", "B">>), <<"a", ".", "t", "x", "t">> }

Directories == {d \in SUBSET FileNames : Cardinality(d) <= MaxFiles}

\* Output file names.
OutNames == { <<"o", ".", "t", "i", "f">>, <<"o", "&", ".", "t", "i", "f">> }

\* f"{pixel_size}" for the command line's default.
PixelSizes == { "0.5077663810243286" }

Dims == {SmallDim, LargeDim}

\* Shapes of the 2-D source images.
Shapes == {<<h, w>> : h \in Dims, w \in Dims}

\* The orders in which a directory listing can enumerate a set of names.
Enumerations(S) ==
    {e \in [1..Cardinality(S) -> S] : \A a, b \in DOMAIN e : a # b => e[a] # e[b]}

(***************************************************************************)
(* The run.                                                                *)
(***************************************************************************)
Init ==
    /\ pc = "main"
    /\ input_is_dir \in BOOLEAN
    /\ dir_entries \in Directories
    /\ input_is_dir = FALSE => dir_entries = {}
    /\ filename \in OutNames
    /\ pixel_size \in PixelSizes
    /\ uuid_calls = 0
    /\ parent_made = FALSE
    /\ channel_paths = <<>>
    /\ names = <<>>
    /\ size_yx = <<>>
    /\ ome_xml = <<>>
    /\ tw = "unopened"
    /\ pages = <<>>
    /\ i = 0
    /\ level = 0
    /\ first = <<>>
    /\ img = <<>>
    /\ sub = <<>>
    /\ err = "none"
    /\ ReducerIdle
    /\ BatchIdle

\* main, lines 192-193: the input directory is missing.
MainNoDir ==
    /\ pc = "main"
    /\ ~input_is_dir
    /\ pc' = "exit"
    /\ err' = "input directory not found"
    /\ UNCHANGED <<reducer_vars, batch_vars,
                   input_is_dir, dir_entries, filename, pixel_size, uuid_calls,
                   parent_made, channel_paths, names, size_yx, ome_xml, tw,
                   pages, i, level, first, img, sub>>

\* main, lines 195-197: make the output's parent directory, call convert.
MainConvert ==
    /\ pc = "main"
    /\ input_is_dir
    /\ parent_made' = TRUE
    /\ pc' = "discover"
    /\ UNCHANGED <<reducer_vars, batch_vars,
                   input_is_dir, dir_entries, filename, pixel_size, uuid_calls,
                   channel_paths, names, size_yx, ome_xml, tw, pages, i, level,
                   first, img, sub, err>>

\* discover_channels, lines 32-33: no eligible file.
DiscoverNone ==
    /\ pc = "discover"
    /\ \E e \in Enumerations(dir_entries) :
          /\ eligible_tifs(e) = <<>>
          /\ pc' = "exit"
          /\ err' = "no TIF files found"
    /\ UNCHANGED <<reducer_vars, batch_vars,
                   input_is_dir, dir_entries, filename, pixel_size, uuid_calls,
                   parent_made, channel_paths, names, size_yx, ome_xml, tw,
                   pages, i, level, first, img, sub>>

\* convert, lines 115-117: resolve the channels and their names.
Discover ==
    /\ pc = "discover"
    /\ \E e \in Enumerations(dir_entries) :
          /\ eligible_tifs(e) # <<>>
          /\ channel_paths' = discover_channels(e)
          /\ names' = [c \in 1..Len(discover_channels(e)) |->
                          channel_name(discover_channels(e)[c])]
    /\ pc' = "probe"
    /\ UNCHANGED <<reducer_vars, batch_vars,
                   input_is_dir, dir_entries, filename, pixel_size, uuid_calls,
                   parent_made, size_yx, ome_xml, tw, pages, i, level, first,
                   img, sub, err>>

\* convert, line 122: read the first channel.
Probe ==
    /\ pc = "probe"
    /\ \E shape \in Shapes : first' = <<imread(channel_paths[1], shape)>>
    /\ pc' = "size"
    /\ UNCHANGED <<reducer_vars, batch_vars,
                   input_is_dir, dir_entries, filename, pixel_size, uuid_calls,
                   parent_made, channel_paths, names, size_yx, ome_xml, tw,
                   pages, i, level, img, sub, err>>

\* convert, line 122: the first channel's file cannot be read; imread raises.
ProbeFail ==
    /\ pc = "probe"
    /\ pc' = "error"
    /\ err' = "read"
    /\ UNCHANGED <<reducer_vars, batch_vars,
                   input_is_dir, dir_entries, filename, pixel_size, uuid_calls,
                   parent_made, channel_paths, names, size_yx, ome_xml, tw,
                   pages, i, level, first, img, sub>>

\* Taking the dimensions without releasing the probe plane.
TakeSize_keeps_first ==
    /\ pc = "size"
    /\ size_yx' = first[1].shape
    /\ pc' = "build"
    /\ UNCHANGED <<reducer_vars, batch_vars,
                   input_is_dir, dir_entries, filename, pixel_size, uuid_calls,
                   parent_made, channel_paths, names, ome_xml, tw, pages, i,
                   level, first, img, sub, err>>

\* convert, lines 123-124: take the dimensions, release the plane.
TakeSize ==
    /\ pc = "size"
    /\ size_yx' = first[1].shape
    /\ first' = <<>>
    /\ pc' = "build"
    /\ UNCHANGED <<reducer_vars, batch_vars,
                   input_is_dir, dir_entries, filename, pixel_size, uuid_calls,
                   parent_made, channel_paths, names, ome_xml, tw, pages, i,
                   level, img, sub, err>>

\* convert, lines 128-129: build the metadata document.
BuildXml ==
    /\ pc = "build"
    /\ ome_xml' = <<build_ome_xml(names, size_yx[1], size_yx[2], pixel_size,
                                  filename, uuid_calls)>>
    /\ uuid_calls' = uuid_calls + 1
    /\ pc' = "open"
    /\ UNCHANGED <<reducer_vars, batch_vars,
                   input_is_dir, dir_entries, filename, pixel_size,
                   parent_made, channel_paths, names, size_yx, tw, pages, i,
                   level, first, img, sub, err>>

\* convert, lines 146-147: open the container, enter the channel loop.
OpenWriter ==
    /\ pc = "open"
    /\ tw' = "open"
    /\ i' = 0
    /\ pc' = "load"
    /\ UNCHANGED <<reducer_vars, batch_vars,
                   input_is_dir, dir_entries, filename, pixel_size, uuid_calls,
                   parent_made, channel_paths, names, size_yx, ome_xml, pages,
                   level, first, img, sub, err>>

\* convert, line 151: load channel i.  Channel 0 is the file the probe read,
\* unchanged since; any other file has whatever shape it has.
LoadChannel ==
    /\ pc = "load"
    /\ \E shape \in Shapes :
          /\ i = 0 => shape = size_yx
          /\ img' = <<imread(channel_paths[i + 1], shape)>>
    /\ pc' = "write_full"
    /\ UNCHANGED <<reducer_vars, batch_vars,
                   input_is_dir, dir_entries, filename, pixel_size, uuid_calls,
                   parent_made, channel_paths, names, size_yx, ome_xml, tw,
                   pages, i, level, first, sub, err>>

\* convert, line 151: the read of channel i raises (for channel 0 this is a
\* second read, after the probe of line 122, and can fail on its own); the
\* with block closes the container on the way out.
LoadFail ==
    /\ pc = "load"
    /\ tw' = "closed"
    /\ pc' = "error"
    /\ err' = "read"
    /\ UNCHANGED <<reducer_vars, batch_vars,
                   input_is_dir, dir_entries, filename, pixel_size, uuid_calls,
                   parent_made, channel_paths, names, size_yx, ome_xml, pages,
                   i, level, first, img, sub>>

\* convert, lines 154-165: write the full-resolution plane of channel i.
WriteFull ==
    /\ pc = "write_full"
    /\ pages' = Append(pages, tw_write(img[1], page_kwargs(i, ome_xml[1])))
    /\ pc' = "start_pyramid"
    /\ UNCHANGED <<reducer_vars, batch_vars,
                   input_is_dir, dir_entries, filename, pixel_size, uuid_calls,
                   parent_made, channel_paths, names, size_yx, ome_xml, tw, i,
                   level, first, img, sub, err>>

\* convert, lines 165 and 172: the storage fails under a write; tw.write
\* raises and the with block closes the container on the way out.
WriteFail ==
    /\ pc \in {"write_full", "write_sub"}
    /\ tw' = "closed"
    /\ pc' = "error"
    /\ err' = "write"
    /\ UNCHANGED <<reducer_vars, batch_vars,
                   input_is_dir, dir_entries, filename, pixel_size, uuid_calls,
                   parent_made, channel_paths, names, size_yx, ome_xml, pages,
                   i, level, first, img, sub>>

\* convert, lines 168-170: sub takes over the plane, img is unbound, the
\* level loop starts.
StartPyramid ==
    /\ pc = "start_pyramid"
    /\ sub' = img
    /\ img' = <<>>
    /\ level' = 0
    /\ pc' = "reduce"
    /\ UNCHANGED <<reducer_vars, batch_vars,
                   input_is_dir, dir_entries, filename, pixel_size, uuid_calls,
                   parent_made, channel_paths, names, size_yx, ome_xml, tw,
                   pages, i, first, err>>

\* convert, line 171: reduce the current level.
Reduce ==
    /\ pc = "reduce"
    /\ sub' = <<downsample_2x(sub[1])>>
    /\ pc' = "write_sub"
    /\ UNCHANGED <<reducer_vars, batch_vars,
                   input_is_dir, dir_entries, filename, pixel_size, uuid_calls,
                   parent_made, channel_paths, names, size_yx, ome_xml, tw,
                   pages, i, level, first, img, err>>

\* convert, lines 170 and 172: write the level; loop while fewer than
\* NUM_SUBIFDS levels are written.
WriteSub ==
    /\ pc = "write_sub"
    /\ pages' = Append(pages, tw_write(sub[1], subifd_options))
    /\ level' = level + 1
    /\ pc' = IF level + 1 < NUM_SUBIFDS THEN "reduce" ELSE "del_sub"
    /\ UNCHANGED <<reducer_vars, batch_vars,
                   input_is_dir, dir_entries, filename, pixel_size, uuid_calls,
                   parent_made, channel_paths, names, size_yx, ome_xml, tw, i,
                   first, img, sub, err>>

\* convert, lines 173 and 147: release the last level, go to the next
\* channel or leave the loop.
DelSub ==
    /\ pc = "del_sub"
    /\ sub' = <<>>
    /\ i' = i + 1
    /\ pc' = IF i + 1 < Len(channel_paths) THEN "load" ELSE "close"
    /\ UNCHANGED <<reducer_vars, batch_vars,
                   input_is_dir, dir_entries, filename, pixel_size, uuid_calls,
                   parent_made, channel_paths, names, size_yx, ome_xml, tw,
                   pages, level, first, img, err>>

\* convert, lines 146 and 175: the with block ends, the container is closed.
CloseWriter ==
    /\ pc = "close"
    /\ tw' = "closed"
    /\ pc' = "done"
    /\ UNCHANGED <<reducer_vars, batch_vars,
                   input_is_dir, dir_entries, filename, pixel_size, uuid_calls,
                   parent_made, channel_paths, names, size_yx, ome_xml, pages,
                   i, level, first, img, sub, err>>

Next ==
    \/ MainNoDir
    \/ MainConvert
    \/ DiscoverNone
    \/ Discover
    \/ Probe
    \/ ProbeFail
    \/ TakeSize
    \/ BuildXml
    \/ OpenWriter
    \/ LoadChannel
    \/ LoadFail
    \/ WriteFull
    \/ WriteFail
    \/ StartPyramid
    \/ Reduce
    \/ WriteSub
    \/ DelSub
    \/ CloseWriter

Spec == Init /\ [][Next]_vars

(***************************************************************************)
(* Reading the metadata document back (XML 1.0, production AttValue): in   *)
(* a double-quoted attribute value a '"' ends the value, '<' is not        *)
(* allowed, and '&' must start a reference.  The text after an early '"'   *)
(* would have to continue as attribute syntax (white space, '=', '>'),     *)
(* which no character of Chars can start, so the document is then not      *)
(* well formed.                                                            *)
(***************************************************************************)
XmlEntities ==
    { [ref |-> <<"a", "m", "p", ";">>,      char |-> "&"],
      [ref |-> <<"l", "t", ";">>,           char |-> "<"],
      [ref |-> <<"g", "t", ";">>,           char |-> ">"],
      [ref |-> <<"q", "u", "o", "t", ";">>, char |-> "\""],
      [ref |-> <<"a", "p", "o", "s", ";">>, char |-> "'"] }

\* The value an XML parser reports for the attribute text raw, or ok = FALSE
\* when the text makes the document not well formed.
RECURSIVE xml_attr_value(_)
xml_attr_value(raw) ==
    IF raw = <<>> THEN [ok |-> TRUE, value |-> <<>>]
    ELSE IF Head(raw) \in {"<", "\""} THEN [ok |-> FALSE, value |-> <<>>]
    ELSE IF Head(raw) = "&"
    THEN LET ents == {e \in XmlEntities : StartsWith(Tail(raw), e.ref)}
         IN  IF ents = {} THEN [ok |-> FALSE, value |-> <<>>]
             ELSE LET e    == CHOOSE x \in ents : TRUE
                      rest == xml_attr_value(
                                  SubSeq(raw, Len(e.ref) + 2, Len(raw)))
                  IN  [ok |-> rest.ok, value |-> <<e.char>> \o rest.value]
    ELSE LET rest == xml_attr_value(Tail(raw))
         IN  [ok |-> rest.ok, value |-> <<Head(raw)>> \o rest.value]

\* What a reader of the document gets: whether it is well formed, SizeC, and
\* the Name of every Channel element in document order.
parse_ome_xml(doc) ==
    LET n == Len(doc.channels)
    IN  [ok |-> /\ xml_attr_value(doc.image_name).ok
                /\ \A c \in 1..n : xml_attr_value(doc.channels[c].name).ok
                /\ \A c \in 1..Len(doc.tiffdata) :
                      xml_attr_value(doc.tiffdata[c].uuid_file_name).ok,
         size_c |-> doc.size_c,
         channel_names |-> [c \in 1..n |->
                               xml_attr_value(doc.channels[c].name).value]]

(***************************************************************************)
(* Helpers of the properties.                                              *)
(***************************************************************************)
IsFullPage(page) == page.opts.subfiletype = 0

\* The planes of the container's main chain: the full-resolution planes.
FullPages == SelectSeq(pages, IsFullPage)

HasZeroDim(shape) == \E d \in 1..Len(shape) : shape[d] = 0

Resolved == channel_paths # <<>>

(***************************************************************************)
(* Properties.                                                             *)
(***************************************************************************)

\* C1: channels of differing dimensions are never written: every
\* full-resolution plane in the container has the (height, width) the
\* metadata document declares, because a mismatch aborts the run before any
\* plane is written.
C1_PlanesMatchDeclaredSize ==
    \A k \in 1..Len(pages) :
        IsFullPage(pages[k]) =>
            pages[k].plane.shape = <<ome_xml[1].size_y, ome_xml[1].size_x>>

\* C2: an input error (directory missing, no eligible file, a channel file
\* that cannot be read) is only ever reported while the container is still
\* unopened and no plane is written.
C2_InputErrorsBeforeOpen ==
    err \in {"input directory not found", "no TIF files found", "read"} =>
        tw = "unopened" /\ pages = <<>>

\* C3: in the resolved list the nuclear-stain files (DAPI, DAPI-01) precede
\* all others, and adjacent other channels ascend by normalized name.
C3_ResolvedOrder ==
    Resolved =>
        /\ \A a, b \in 1..Len(channel_paths) :
              a < b /\ IsDapi(channel_paths[b]) => IsDapi(channel_paths[a])
        /\ \A k \in 1..(Len(channel_paths) - 1) :
              ~IsDapi(channel_paths[k]) /\ ~IsDapi(channel_paths[k + 1]) =>
                  StrLeq(names[k], names[k + 1])

\* C4: the normalized channel names of a run are pairwise distinct.
C4_NamesDistinct ==
    \A a, b \in 1..Len(names) : a # b => names[a] # names[b]

\* C5: the writes of a run are, channel by channel in resolved order, one
\* full-resolution plane declaring 5 sub-resolution planes followed by that
\* channel's 5 reduced planes flagged reduced-resolution; a completed run of
\* N channels holds 6 * N planes.
C5_WriteSequence ==
    /\ \A k \in 1..Len(pages) :
          LET c == (k - 1) \div 6
              r == (k - 1) % 6
          IN  /\ pages[k].plane.src = channel_paths[c + 1]
              /\ pages[k].plane.level = r
              /\ r = 0 => /\ pages[k].opts.subfiletype = 0
                          /\ pages[k].opts.subifds = 5
              /\ r > 0 => /\ pages[k].opts.subfiletype = 1
                          /\ pages[k].opts.subifds = 0
    /\ pc = "done" => Len(pages) = 6 * Len(channel_paths)

C5_Witness ==
    /\ pc = "done"
    /\ Len(channel_paths) = 3
    /\ Len(pages) = 18

\* C6: only the first plane written, the full-resolution plane of the first
\* channel, carries the metadata document; no other plane has a description.
C6_DescriptionOnFirstPlaneOnly ==
    \A k \in 1..Len(pages) :
        IF k = 1
        THEN /\ pages[k].opts.description = ome_xml
             /\ ome_xml # <<>>
             /\ IsFullPage(pages[k])
             /\ pages[k].plane.src = channel_paths[1]
        ELSE pages[k].opts.description = <<>>

C6_Witness ==
    /\ pc = "done"
    /\ Len(channel_paths) >= 2
    /\ Cardinality({k \in 1..Len(pages) : pages[k].opts.description # <<>>}) = 1

\* C7: read back as XML, the document is well formed and reports as many
\* channels as names were supplied, with the supplied names in order.
C7_MetadataRoundTrip ==
    ome_xml # <<>> =>
        LET parsed == parse_ome_xml(ome_xml[1])
        IN  /\ parsed.ok
            /\ parsed.size_c = Len(names)
            /\ parsed.channel_names = names

\* C8: for every channel index c the document holds exactly one plane
\* reference with FirstC = c, and it has FirstT = 0, FirstZ = 0, IFD = c and
\* the document's UUID; the c-th full-resolution plane written holds the
\* plane read from the c-th resolved channel file.
C8_PlaneReferences ==
    /\ ome_xml # <<>> =>
          LET doc == ome_xml[1]
          IN  \A c \in 0..(Len(names) - 1) :
                  LET refs == {t \in DOMAIN doc.tiffdata :
                                   doc.tiffdata[t].first_c = c}
                  IN  /\ Cardinality(refs) = 1
                      /\ \A t \in refs :
                            /\ doc.tiffdata[t].first_t = 0
                            /\ doc.tiffdata[t].first_z = 0
                            /\ doc.tiffdata[t].ifd = c
                            /\ doc.tiffdata[t].uuid = doc.uuid
    /\ \A c \in 1..Len(FullPages) :
          /\ FullPages[c].plane.src = channel_paths[c]
          /\ FullPages[c].plane.level = 0

C8_Witness ==
    /\ pc = "done"
    /\ Len(FullPages) = 3
    /\ Len(ome_xml[1].tiffdata) = 3

\* C9: every reduced plane has the floor-halved shape of the plane it was
\* reduced from, which is the plane written just before it (the previous
\* level, not level 0).
C9_ShapeLaw ==
    /\ \A k \in 2..Len(pages) :
          ~IsFullPage(pages[k]) =>
              /\ pages[k].plane.shape[1] = pages[k - 1].plane.shape[1] \div 2
              /\ pages[k].plane.shape[2] = pages[k - 1].plane.shape[2] \div 2
              /\ pages[k].plane.level = pages[k - 1].plane.level + 1
    /\ pc = "write_sub" =>
          /\ sub[1].shape[1] = pages[Len(pages)].plane.shape[1] \div 2
          /\ sub[1].shape[2] = pages[Len(pages)].plane.shape[2] \div 2

\* A level reduced from an odd-sided level: 25 -> 12 on the way 200 -> 6.
C9_Witness ==
    \E k \in 2..Len(pages) :
        /\ pages[k - 1].plane.shape[1] % 2 = 1
        /\ pages[k - 1].plane.shape[1] > 1
        /\ pages[k].plane.level = 4
        /\ pages[k].plane.shape[1] * 2 < pages[k - 1].plane.shape[1]

\* C10: a reduction never yields a plane with a zero dimension, and no
\* degenerate level is ever written: the run aborts instead.
C10_NoDegenerateLevel ==
    /\ sub # <<>> => ~HasZeroDim(sub[1].shape)
    /\ \A k \in 1..Len(pages) : ~HasZeroDim(pages[k].plane.shape)

\* C12: the resolved channel order is a function of the directory's contents:
\* whatever order the directory is enumerated in, resolution gives the list
\* this run resolved.
C12_OrderIndependentOfEnumeration ==
    pc = "probe" =>
        \A e \in Enumerations(dir_entries) :
            discover_channels(e) = channel_paths

\* A directory of three eligible files (six enumeration orders) is resolved.
C12_Witness ==
    /\ pc = "probe"
    /\ Len(channel_paths) = 3
    /\ Cardinality(Enumerations(dir_entries)) = 6

\* The planes bound to first, img and sub.
ResidentPlanes == first \o img \o sub

\* C14: between any two statements at most one plane is resident and it
\* belongs to the channel at hand; when a channel's full-resolution plane has
\* just been loaded, the probe plane and every plane of the channel before
\* it are released.
C14_OneChannelResident ==
    /\ Len(ResidentPlanes) <= 1
    /\ \A k \in 1..Len(ResidentPlanes) :
          ResidentPlanes[k].src = channel_paths[i + 1]
    /\ pc = "write_full" => first = <<>> /\ sub = <<>> /\ Len(img) = 1

\* The second channel's plane is loaded, after six planes of the first.
C14_Witness ==
    /\ pc = "write_full"
    /\ i = 1
    /\ Len(pages) = 6
    /\ ResidentPlanes = img

(***************************************************************************)
(* downsample_2x on sample arrays.  An array is its shape and its samples, *)
(* a function of the 0-based index tuples of the shape.                    *)
(***************************************************************************)
\* np.uint16 holds the values 0 .. UINT16_MODULUS - 1.
UINT16_MODULUS == 65536

\* Bounds of the reducer's inputs.
\* An arbitrary plane has at most MaxCells samples.
MaxCells == 6

\* A uniform plane has sides of at most MaxUniformSide.
MaxUniformSide == 8

\* A stacked array has at most MaxStack channels, rows and columns.
MaxStack == 2

RECURSIVE Indices(_)
Indices(shape) ==
    IF shape = <<>> THEN {<<>>}
    ELSE {<<k>> \o rest : k \in 0..(Head(shape) - 1),
                          rest \in Indices(Tail(shape))}

\* Position of an index in C (row-major) order.
RECURSIVE Ravel(_, _)
Ravel(idx, shape) ==
    IF idx = <<>> THEN 0
    ELSE LET n == Len(idx)
         IN  Ravel(SubSeq(idx, 1, n - 1), SubSeq(shape, 1, n - 1)) * shape[n]
                 + idx[n]

\* The index at a position in C order.
RECURSIVE Unravel(_, _)
Unravel(flat, shape) ==
    IF shape = <<>> THEN <<>>
    ELSE LET n == Len(shape)
         IN  Unravel(flat \div shape[n], SubSeq(shape, 1, n - 1))
                 \o <<flat % shape[n]>>

\* line 53: img[:h2, :w2] of a 2-D array with h2 <= h, w2 <= w.
slice_2d(a, h2, w2) ==
    [shape |-> <<h2, w2>>,
     data  |-> [idx \in Indices(<<h2, w2>>) |-> a.data[idx]]]

\* line 53: a.reshape(newshape), same samples in C order.
reshape(a, newshape) ==
    [shape |-> newshape,
     data  |-> [idx \in Indices(newshape) |->
                   a.data[Unravel(Ravel(idx, newshape), a.shape)]]]

\* A mean whose sum is accumulated in the samples' own 16 bits.
mean_axes_1_3_wrapping(a) ==
    [shape |-> <<a.shape[1], a.shape[3]>>,
     data  |-> [idx \in Indices(<<a.shape[1], a.shape[3]>>) |->
                   [num |-> (a.data[<<idx[1], 0, idx[2], 0>>]
                             + a.data[<<idx[1], 0, idx[2], 1>>]
                             + a.data[<<idx[1], 1, idx[2], 0>>]
                             + a.data[<<idx[1], 1, idx[2], 1>>])
                                % UINT16_MODULUS,
                    den |-> 4]]]

\* line 53: a.mean(axis=(1, 3)) of a uint16 array of shape (n, 2, m, 2).
\* numpy accumulates the mean of integers in float64, where a sum of four
\* 16-bit values and its quarter are exact: the mean is the fraction num/den.
mean_axes_1_3(a) ==
    [shape |-> <<a.shape[1], a.shape[3]>>,
     data  |-> [idx \in Indices(<<a.shape[1], a.shape[3]>>) |->
                   [num |-> a.data[<<idx[1], 0, idx[2], 0>>]
                            + a.data[<<idx[1], 0, idx[2], 1>>]
                            + a.data[<<idx[1], 1, idx[2], 0>>]
                            + a.data[<<idx[1], 1, idx[2], 1>>],
                    den |-> a.shape[2] * a.shape[4]]]]

\* A cast that rounds to the nearest integer.
astype_uint16_rounding(m) ==
    [shape |-> m.shape,
     data  |-> [idx \in Indices(m.shape) |->
                   ((2 * m.data[idx].num + m.data[idx].den)
                        \div (2 * m.data[idx].den)) % UINT16_MODULUS]]

\* line 53: m.astype(np.uint16) of non-negative floats: the fraction is
\* dropped, the integer kept in 16 bits.
astype_uint16(m) ==
    [shape |-> m.shape,
     data  |-> [idx \in Indices(m.shape) |->
                   (m.data[idx].num \div m.data[idx].den) % UINT16_MODULUS]]

\* lines 52-53 for a 2-D array.
reduce_plane(a) ==
    LET h  == a.shape[1]
        w  == a.shape[2]
        h2 == h - (h % 2)
        w2 == w - (w % 2)
    IN  astype_uint16(mean_axes_1_3(
            reshape(slice_2d(a, h2, w2), <<h2 \div 2, 2, w2 \div 2, 2>>)))

\* downsample_2x, lines 49-53, on a sample array: "h, w = img.shape" raises
\* ValueError unless the array has exactly two axes.
downsample_2x_samples(a) ==
    IF Len(a.shape) # 2 THEN [raised |-> TRUE, value |-> <<>>]
    ELSE [raised |-> FALSE, value |-> <<reduce_plane(a)>>]

\* Sample values the inputs are built from: the ends of the range and 1.
Samples == {0, 1, UINT16_MODULUS - 1}

\* Values the uniform inputs are filled with: both ends of the range, the
\* values next to them, and both sides of the 8-bit and 15-bit boundaries.
UniformValues ==
    {0, 1, 2, 3, 255, 256, 32767, 32768, UINT16_MODULUS - 2, UINT16_MODULUS - 1}

ArraysOver(shape) ==
    {[shape |-> shape, data |-> d] : d \in [Indices(shape) -> Samples]}

Uniform(shape, v) ==
    [shape |-> shape, data |-> [idx \in Indices(shape) |-> v]]

ArbitraryPlanes ==
    UNION {ArraysOver(shape) :
               shape \in {hw \in (0..MaxCells) \X (0..MaxCells) :
                              hw[1] * hw[2] <= MaxCells}}

\* Planes of two blocks, side by side or one above the other, over the two
\* ends of the range.
BlockPairPlanes ==
    UNION {{[shape |-> shape, data |-> d] :
                d \in [Indices(shape) -> {1, UINT16_MODULUS - 1}]} :
               shape \in {<<2, 4>>, <<4, 2>>}}

UniformPlanes ==
    {Uniform(<<h, w>>, v) :
         h \in 1..MaxUniformSide, w \in 1..MaxUniformSide,
         v \in UniformValues}

Stacks ==
    {Uniform(<<c, h, w>>, v) :
         c \in 1..MaxStack, h \in 1..MaxStack, w \in 1..MaxStack,
         v \in Samples}

ReducerInit ==
    /\ r_pc = "ready"
    /\ r_orig \in ArbitraryPlanes \cup BlockPairPlanes \cup UniformPlanes
                    \cup Stacks
    /\ r_img = r_orig
    /\ r_prev = <<>>
    /\ r_level = 0
    /\ ConvertIdle
    /\ BatchIdle

\* convert, lines 170-171: sub = downsample_2x(sub), at most NUM_SUBIFDS
\* times.
ReduceSamples ==
    /\ r_pc = "ready"
    /\ r_level < NUM_SUBIFDS
    /\ ~downsample_2x_samples(r_img).raised
    /\ r_prev' = <<r_img>>
    /\ r_img' = downsample_2x_samples(r_img).value[1]
    /\ r_level' = r_level + 1
    /\ UNCHANGED <<r_pc, r_orig, convert_vars, batch_vars>>

\* downsample_2x, line 51: the call raises.
ReduceRaises ==
    /\ r_pc = "ready"
    /\ r_level < NUM_SUBIFDS
    /\ downsample_2x_samples(r_img).raised
    /\ r_pc' = "raised"
    /\ UNCHANGED <<r_orig, r_prev, r_img, r_level, convert_vars, batch_vars>>

ReducerNext ==
    \/ ReduceSamples
    \/ ReduceRaises

SpecReduce == ReducerInit /\ [][ReducerNext]_vars

(***************************************************************************)
(* Properties of the reducer.                                              *)
(***************************************************************************)
IsUniform(a, v) == \A idx \in Indices(a.shape) : a.data[idx] = v

\* C11: when every sample of the input plane is v, every sample of every
\* level reduced from it is v.
C11_UniformStaysUniform ==
    r_pc # "idle" /\ Len(r_orig.shape) = 2 =>
        \A v \in UniformValues :
            IsUniform(r_orig, v) => IsUniform(r_img, v)

\* Three reductions of an 8 x 8 plane of 65535 leave one sample, 65535.
C11_Witness ==
    /\ r_level = 3
    /\ r_orig.shape = <<8, 8>>
    /\ IsUniform(r_orig, UINT16_MODULUS - 1)
    /\ r_img.shape = <<1, 1>>
    /\ r_img.data[<<0, 0>>] = UINT16_MODULUS - 1

\* C13: the reducer takes a stacked (channels, height, width) array and
\* returns the stack with its two trailing sides floor-halved.
C13_AcceptsStacks ==
    r_pc # "idle" /\ Len(r_orig.shape) = 3 =>
        /\ r_pc # "raised"
        /\ r_level > 0 =>
              r_img.shape = <<r_prev[1].shape[1], r_prev[1].shape[2] \div 2,
                              r_prev[1].shape[3] \div 2>>

Min4(a, b, c, d) ==
    CHOOSE m \in {a, b, c, d} : \A x \in {a, b, c, d} : m <= x

Max4(a, b, c, d) ==
    CHOOSE m \in {a, b, c, d} : \A x \in {a, b, c, d} : m >= x

\* C15: every output sample is floor((a + b + c + d) / 4) of its own 2 x 2
\* block of the argument, the sum taken without wrapping; it lies between
\* the block's minimum and maximum, hence in 0..65535; the output has one
\* sample per whole block, so a trimmed last row or column feeds none.
C15_BlockMeanFloor ==
    r_level > 0 =>
        LET src == r_prev[1]
        IN  /\ r_img.shape = <<src.shape[1] \div 2, src.shape[2] \div 2>>
            /\ DOMAIN r_img.data = Indices(r_img.shape)
            /\ \A idx \in Indices(r_img.shape) :
                  LET a == src.data[<<2 * idx[1], 2 * idx[2]>>]
                      b == src.data[<<2 * idx[1], 2 * idx[2] + 1>>]
                      c == src.data[<<2 * idx[1] + 1, 2 * idx[2]>>]
                      d == src.data[<<2 * idx[1] + 1, 2 * idx[2] + 1>>]
                  IN  /\ r_img.data[idx] = (a + b + c + d) \div 4
                      /\ Min4(a, b, c, d) <= r_img.data[idx]
                      /\ r_img.data[idx] <= Max4(a, b, c, d)
                      /\ r_img.data[idx] \in 0..65535

\* A 3 x 3 plane is out of the arbitrary planes' bound; a 2 x 3 plane whose
\* block is 65535, 65535, 65535, 1 (mean 49151.5) and whose trimmed column
\* is 0 is reduced to the one sample 49151.
C15_Witness ==
    /\ r_level = 1
    /\ r_prev[1].shape = <<2, 3>>
    /\ r_prev[1].data[<<0, 0>>] = 65535
    /\ r_prev[1].data[<<0, 1>>] = 65535
    /\ r_prev[1].data[<<1, 0>>] = 65535
    /\ r_prev[1].data[<<1, 1>>] = 1
    /\ r_prev[1].data[<<0, 2>>] = 0
    /\ r_prev[1].data[<<1, 2>>] = 0
    /\ r_img.shape = <<1, 1>>
    /\ r_img.data[<<0, 0>>] = 49151

(***************************************************************************)
(* The signal-isolation batch run: process_hdl73_channels.main.            *)
(* Files are named by their stems: "CD20" is CD20.tif.  registered is the  *)
(* content of REGISTERED_DIR, outputs the content of OUTPUT_DIR.  The      *)
(* subtraction itself is the work of an external package; the run sees     *)
(* only whether process_channel returns or raises.                         *)
(***************************************************************************)
MaxChannels == 3

\* lines 38-58: rows of the channel table, in the order sorted() gives
\* them ("CD20" < "CD8" < "HLADR" < "Ki67" by code point).
SignalChannelTable == <<"CD20", "CD8", "HLADR", "Ki67">>

ALL_SIGNAL_CHANNELS == SubSeq(SignalChannelTable, 1, MaxChannels)

Range(seq) == {seq[k] : k \in 1..Len(seq)}

\* lines 69-70: the blank pair of each position.
BlankFiles ==
    {"Blank1a", "Blank13a", "Blank1b", "Blank13b", "Blank1c", "Blank13c"}

\* lines 187-192: to_process.
select_to_process(f, ex) ==
    IF ~f THEN SelectSeq(ALL_SIGNAL_CHANNELS, LAMBDA ch : ch \notin ex)
    ELSE ALL_SIGNAL_CHANNELS

\* lines 187-192: skipped.
select_skipped(f, ex) ==
    IF ~f THEN SelectSeq(ALL_SIGNAL_CHANNELS, LAMBDA ch : ch \in ex)
    ELSE <<>>

\* lines 112-119: the file process_channel reads for a marker, if any.
signal_path(marker, reg) ==
    IF marker \in reg THEN <<marker>>
    ELSE IF marker = "HLADR" /\ "HLA-DR" \in reg THEN <<"HLA-DR">>
    ELSE <<>>

SignalFiles == Range(ALL_SIGNAL_CHANNELS) \cup {"HLA-DR", "DAPI"}

\* Every blank file present, or one of them absent.
BlankSets == {BlankFiles} \cup {BlankFiles \ {b} : b \in BlankFiles}

BatchInit ==
    /\ b_pc = "select"
    /\ force \in BOOLEAN
    /\ \E sig \in SUBSET SignalFiles, bl \in BlankSets :
           registered = sig \cup bl
    /\ outputs \in SUBSET (Range(ALL_SIGNAL_CHANNELS) \cup {"DAPI"})
    /\ existing = {}
    /\ to_process = <<>>
    /\ skipped = <<>>
    /\ results = <<>>
    /\ b_idx = 0
    /\ ConvertIdle
    /\ ReducerIdle

\* main, lines 183-197.
Select ==
    /\ b_pc = "select"
    /\ existing' = outputs
    /\ to_process' = select_to_process(force, outputs)
    /\ skipped' = select_skipped(force, outputs)
    /\ b_pc' = "blanks"
    /\ UNCHANGED <<force, registered, results, b_idx, outputs,
                   convert_vars, reducer_vars>>

\* main, lines 200-206: all three blank averages are computed.
BlankAverages ==
    /\ b_pc = "blanks"
    /\ BlankFiles \subseteq registered
    /\ b_pc' = "loop"
    /\ UNCHANGED <<force, registered, existing, to_process, skipped, results,
                   b_idx, outputs, convert_vars, reducer_vars>>

\* main, line 203: compute_blank_average raises (a blank file absent or
\* unreadable, or the two blanks of a pair of different shapes), outside any
\* try; the run ends there.
BlankFail ==
    /\ b_pc = "blanks"
    /\ b_pc' = "crashed"
    /\ UNCHANGED <<force, registered, existing, to_process, skipped, results,
                   b_idx, outputs, convert_vars, reducer_vars>>

\* lines 214-215 with process_channel line 119: no signal file.
ProcessMissing ==
    /\ b_pc = "loop"
    /\ b_idx < Len(to_process)
    /\ signal_path(to_process[b_idx + 1], registered) = <<>>
    /\ results' = Append(results, [marker |-> to_process[b_idx + 1],
                                   status |-> "MISSING"])
    /\ b_idx' = b_idx + 1
    /\ UNCHANGED <<b_pc, force, registered, existing, to_process, skipped,
                   outputs, convert_vars, reducer_vars>>

\* lines 214-221 with process_channel lines 121-174: the output is written
\* and the record returned.
ProcessOK ==
    /\ b_pc = "loop"
    /\ b_idx < Len(to_process)
    /\ signal_path(to_process[b_idx + 1], registered) # <<>>
    /\ results' = Append(results, [marker |-> to_process[b_idx + 1],
                                   status |-> "OK"])
    /\ outputs' = outputs \cup {to_process[b_idx + 1]}
    /\ b_idx' = b_idx + 1
    /\ UNCHANGED <<b_pc, force, registered, existing, to_process, skipped,
                   convert_vars, reducer_vars>>

\* lines 224-226: process_channel raised, in loading, in the external
\* package or in imwrite (which may or may not have left a file).
ProcessError ==
    /\ b_pc = "loop"
    /\ b_idx < Len(to_process)
    /\ signal_path(to_process[b_idx + 1], registered) # <<>>
    /\ results' = Append(results, [marker |-> to_process[b_idx + 1],
                                   status |-> "ERROR"])
    /\ outputs' \in {outputs, outputs \cup {to_process[b_idx + 1]}}
    /\ b_idx' = b_idx + 1
    /\ UNCHANGED <<b_pc, force, registered, existing, to_process, skipped,
                   convert_vars, reducer_vars>>

\* lines 229-237: the nuclear-stain image is copied unless it is there.
CopyDapi ==
    /\ b_pc = "loop"
    /\ b_idx = Len(to_process)
    /\ outputs' = IF "DAPI" \in outputs /\ ~force THEN outputs
                  ELSE IF "DAPI" \in registered THEN outputs \cup {"DAPI"}
                  ELSE outputs
    /\ b_pc' = "summary"
    /\ UNCHANGED <<force, registered, existing, to_process, skipped, results,
                   b_idx, convert_vars, reducer_vars>>

\* lines 240-281: the summary is printed.
Summary ==
    /\ b_pc = "summary"
    /\ b_pc' = "done"
    /\ UNCHANGED <<force, registered, existing, to_process, skipped, results,
                   b_idx, outputs, convert_vars, reducer_vars>>

BatchNext ==
    \/ Select
    \/ BlankAverages
    \/ BlankFail
    \/ ProcessMissing
    \/ ProcessOK
    \/ ProcessError
    \/ CopyDapi
    \/ Summary

SpecBatch == BatchInit /\ [][BatchNext]_vars

\* The records made so far are those of the first channels selected, one
\* each, in order.
RecordsFollowSelection ==
    /\ Len(results) = b_idx
    /\ b_idx <= Len(to_process)
    /\ \A k \in 1..Len(results) :
          /\ results[k].marker = to_process[k]
          /\ results[k].status \in {"OK", "MISSING", "ERROR"}

\* The selection is the one the flag asks for.
SelectionFollowsFlag ==
    /\ ~force => Range(to_process) = Range(ALL_SIGNAL_CHANNELS) \ existing
    /\ force => to_process = ALL_SIGNAL_CHANNELS

\* C16: once the channels are selected, without --force none of them has
\* an output file from before the run and with --force all signal channels
\* are selected; and when the run has ended, every selected channel has
\* exactly one record, with status OK, MISSING or ERROR.
C16_OneRecordPerSelectedChannel ==
    /\ b_pc \notin {"idle", "select"} => SelectionFollowsFlag
    /\ b_pc \in {"done", "crashed"} =>
          /\ RecordsFollowSelection
          /\ Len(results) = Len(to_process)

=============================================================================
